---- MODULE Spec2Model ----
(***************************************************************************)
(* A model of the "See No Numbers" browser extension.                      *)
(*                                                                         *)
(* The masking engine (transformString and the regular expressions it      *)
(* uses) is modelled on texts that are sequences of characters; the        *)
(* regular expressions are modelled by what JavaScript's backtracking      *)
(* matcher returns for them.  Offsets are JavaScript's: the first          *)
(* character of a text has offset 0.                                       *)
(***************************************************************************)
EXTENDS Integers, Sequences, FiniteSets, TLC

VARIABLES
  text,          \* the string handed to transformString
  config,        \* the configuration of the call: [enabled, hideMagnitude]
  pc,            \* position of the call: "start", "numeric", "word", "done"
  lastIndex,     \* lastIndex of the four global date patterns
  ranges,        \* the protected ranges of the call
  intermediate,  \* the string after the numeric pass
  origin,        \* for each character of intermediate, its offset in text
  result,        \* the returned string
  calls,         \* calls of findDateRanges that have returned
  siteConfigs,   \* chrome.storage.local: domain -> stored configuration
  globalEnabled, \* chrome.storage.local: the global switch
  pendingSets,   \* storage.set calls issued and not yet applied
  inbox,         \* config-update messages on their way to the page
  initPending,   \* initialize() calls whose storage.get has not called back
  pageText,      \* the text the page itself last gave its text node
  nodeValue,     \* the text node's nodeValue
  observers,     \* the MutationObservers installed: each one's configuration
  records,       \* for each observer, whether a mutation record awaits it
  scripts,       \* injected script elements that have not run yet
  canvasOverrides,  \* the overrides of the canvas text methods, innermost first
  writtenDisabled  \* history: the page wrote the node's text after the site
                   \* was disabled and the page had handled the update

engineVars ==
  <<text, config, pc, lastIndex, ranges, intermediate, origin, result, calls>>

siteVars ==
  <<siteConfigs, globalEnabled, pendingSets, inbox, initPending,
    pageText, nodeValue, observers, records, scripts, canvasOverrides,
    writtenDisabled>>

vars == <<engineVars, siteVars>>

----------------------------------------------------------------------------
(* Characters *)

Bullet == "bullet"     \* the placeholder character U+2022

DigitChars == {"0", "1", "2", "3", "4", "5", "6", "7", "8", "9"}

UpperChars ==
  <<"A","B","C","D","E","F","G","H","I","J","K","L","M",
    "N","O","P","Q","R","S","T","U","V","W","X","Y","Z">>

LowerChars ==
  <<"a","b","c","d","e","f","g","h","i","j","k","l","m",
    "n","o","p","q","r","s","t","u","v","w","x","y","z">>

UpperSet == {UpperChars[k] : k \in 1..Len(UpperChars)}

LowerSet == {LowerChars[k] : k \in 1..Len(LowerChars)}

\* /\s/
IsSpace(c) == c \in {" ", "\t", "\n", "\r", "\f"}

\* /\d/
IsDigit(c) == c \in DigitChars

\* /\w/
IsWordChar(c) == c \in DigitChars \cup UpperSet \cup LowerSet \cup {"_"}

\* IsAlnum as /[0-9]/: the letters of a match are not replaced
IsAlnumDigitsOnly(c) == c \in DigitChars

\* /[0-9a-zA-Z]/
IsAlnum(c) == c \in DigitChars \cup UpperSet \cup LowerSet

\* /[kKmMbBtT]/
IsSuffixLetter(c) == c \in {"k", "K", "m", "M", "b", "B", "t", "T"}

\* the case folding of the i flag, on the letters A-Z
ToLower(c) ==
  IF c \in UpperSet
    THEN LowerChars[CHOOSE k \in 1..Len(UpperChars) : UpperChars[k] = c]
    ELSE c

----------------------------------------------------------------------------
(* Strings *)

\* s[i], with i an offset counted from 0
At(s, i) == s[i + 1]

\* s.substring(i, j)
Slice(s, i, j) == SubSeq(s, i + 1, j)

\* c is of the character class: "digit" for \d, "space" for \s
InClass(c, class) == IF class = "digit" THEN IsDigit(c) ELSE IsSpace(c)

\* the number of characters from offset i on that are of the class, at
\* most max: the greedy \d+, \d{1,2}, \d{2,4} and \s*
RunLen(s, i, max, class) ==
  CHOOSE n \in 0..max :
    /\ i + n <= Len(s)
    /\ \A k \in 0..(n - 1) : InClass(At(s, i + k), class)
    /\ (n = max \/ i + n = Len(s) \/ ~InClass(At(s, i + n), class))

\* the assertion \b at offset i
WordBoundary(s, i) ==
  LET before == i > 0 /\ IsWordChar(At(s, i - 1))
      after  == i < Len(s) /\ IsWordChar(At(s, i))
  IN  before # after

\* the literal w (lower case) at offset i, under the i flag
LiteralAt(s, i, w) ==
  /\ i + Len(w) <= Len(s)
  /\ \A k \in 1..Len(w) : ToLower(At(s, i + k - 1)) = w[k]

\* the first element of a sequence of candidate ends that is one, or -1
FirstEnd(cands) ==
  IF \E k \in 1..Len(cands) : cands[k] # -1
    THEN cands[CHOOSE k \in 1..Len(cands) :
                 /\ cands[k] # -1
                 /\ \A j \in 1..(k - 1) : cands[j] = -1]
    ELSE -1

----------------------------------------------------------------------------
(* The regular expressions.  Each XxxEnd(s, i) is the end offset of the    *)
(* match the pattern has at offset i, or -1 when it has none there.        *)

numberWords ==
  << <<"z","e","r","o">>, <<"o","n","e">>, <<"t","w","o">>,
     <<"t","h","r","e","e">>, <<"f","o","u","r">>, <<"f","i","v","e">>,
     <<"s","i","x">>, <<"s","e","v","e","n">>, <<"e","i","g","h","t">>,
     <<"n","i","n","e">>, <<"t","e","n">>, <<"e","l","e","v","e","n">>,
     <<"t","w","e","l","v","e">>, <<"t","h","i","r","t","e","e","n">>,
     <<"f","o","u","r","t","e","e","n">>, <<"f","i","f","t","e","e","n">>,
     <<"s","i","x","t","e","e","n">>, <<"s","e","v","e","n","t","e","e","n">>,
     <<"e","i","g","h","t","e","e","n">>, <<"n","i","n","e","t","e","e","n">>,
     <<"t","w","e","n","t","y">>, <<"t","h","i","r","t","y">>,
     <<"f","o","r","t","y">>, <<"f","i","f","t","y">>,
     <<"s","i","x","t","y">>, <<"s","e","v","e","n","t","y">>,
     <<"e","i","g","h","t","y">>, <<"n","i","n","e","t","y">>,
     <<"h","u","n","d","r","e","d">>, <<"t","h","o","u","s","a","n","d">>,
     <<"m","i","l","l","i","o","n">>, <<"b","i","l","l","i","o","n">>,
     <<"t","r","i","l","l","i","o","n">> >>

monthNames ==
  << <<"j","a","n">>, <<"f","e","b">>, <<"m","a","r">>,
     <<"a","p","r">>, <<"m","a","y">>, <<"j","u","n">>,
     <<"j","u","l">>, <<"a","u","g">>, <<"s","e","p">>,
     <<"s","e","p","t">>, <<"o","c","t">>, <<"n","o","v">>,
     <<"d","e","c">>, <<"j","a","n","u","a","r","y">>,
     <<"f","e","b","r","u","a","r","y">>,
     <<"m","a","r","c","h">>, <<"a","p","r","i","l">>, <<"m","a","y">>,
     <<"j","u","n","e">>, <<"j","u","l","y">>, <<"a","u","g","u","s","t">>,
     <<"s","e","p","t","e","m","b","e","r">>, <<"o","c","t","o","b","e","r">>,
     <<"n","o","v","e","m","b","e","r">>, <<"d","e","c","e","m","b","e","r">> >>

RECURSIVE DigitGroups(_, _)
\* (?:[.,]\d+)* from offset p: the offset after the last group
DigitGroups(s, p) ==
  IF /\ p + 1 < Len(s)
     /\ At(s, p) \in {".", ","}
     /\ IsDigit(At(s, p + 1))
    THEN DigitGroups(s, p + 1 + RunLen(s, p + 1, Len(s), "digit"))
    ELSE p

\* (?:\s*(?:[kKmMbBtT](?:n)?\b))? from offset p: the offset after it
SuffixEnd(s, p) ==
  LET q == p + RunLen(s, p, Len(s), "space")
  IN  IF q < Len(s) /\ IsSuffixLetter(At(s, q))
        THEN IF q + 1 < Len(s) /\ At(s, q + 1) = "n" /\ WordBoundary(s, q + 2)
               THEN q + 2
               ELSE IF WordBoundary(s, q + 1) THEN q + 1 ELSE p
        ELSE p

\* numberWithSuffixRegex: /\d+(?:[.,]\d+)*(?:\s*(?:[kKmMbBtT](?:n)?\b))?/g
NumberEnd(s, i) ==
  IF i < Len(s) /\ IsDigit(At(s, i))
    THEN SuffixEnd(s, DigitGroups(s, i + RunLen(s, i, Len(s), "digit")))
    ELSE -1

\* WordEnd without the two \b: /(zero|one|...|trillion)/gi
WordEndNoBoundary(s, i) ==
  FirstEnd([k \in 1..Len(numberWords) |->
    IF LiteralAt(s, i, numberWords[k]) THEN i + Len(numberWords[k]) ELSE -1])

\* wordRegex: /\b(zero|one|...|trillion)\b/gi
WordEnd(s, i) ==
  IF WordBoundary(s, i)
    THEN FirstEnd([k \in 1..Len(numberWords) |->
           IF /\ LiteralAt(s, i, numberWords[k])
              /\ WordBoundary(s, i + Len(numberWords[k]))
             THEN i + Len(numberWords[k])
             ELSE -1])
    ELSE -1

\* \s+\d{1,2}(?:,\s*\d{2,4})? from offset p
MonthRestEnd(s, p) ==
  LET sp == RunLen(s, p, Len(s), "space")
      d  == p + sp
      nd == RunLen(s, d, 2, "digit")
      e  == d + nd
      y  == e + 1 + RunLen(s, e + 1, Len(s), "space")
      ny == RunLen(s, y, 4, "digit")
  IN  IF sp = 0 \/ nd = 0
        THEN -1
        ELSE IF e < Len(s) /\ At(s, e) = "," /\ ny >= 2 THEN y + ny ELSE e

\* datePatterns[0]: /\b(?:Jan|...|December)\s+\d{1,2}(?:,\s*\d{2,4})?/gi
MonthDateEnd(s, i) ==
  IF WordBoundary(s, i)
    THEN FirstEnd([k \in 1..Len(monthNames) |->
           IF LiteralAt(s, i, monthNames[k])
             THEN MonthRestEnd(s, i + Len(monthNames[k]))
             ELSE -1])
    ELSE -1

\* (?:\/\d{2,4})?\b from offset p, the longer year first
SlashYearEnd(s, p) ==
  LET ny == IF p < Len(s) /\ At(s, p) = "/"
              THEN RunLen(s, p + 1, 4, "digit")
              ELSE 0
  IN  FirstEnd([k \in 1..4 |->
        IF k <= 3
          THEN IF 5 - k <= ny /\ WordBoundary(s, p + 1 + (5 - k))
                 THEN p + 1 + (5 - k)
                 ELSE -1
          ELSE IF WordBoundary(s, p) THEN p ELSE -1])

\* datePatterns[1]: /\b\d{1,2}\/\d{1,2}(?:\/\d{2,4})?\b/g
SlashDateEnd(s, i) ==
  LET n1 == RunLen(s, i, 2, "digit")
      \* the first \d{1,2}, the longer first, must be followed by "/"
      a  == FirstEnd([k \in 1..2 |->
              IF 3 - k <= n1 /\ i + (3 - k) < Len(s) /\ At(s, i + (3 - k)) = "/"
                THEN 3 - k
                ELSE -1])
      p  == i + a + 1
      n2 == RunLen(s, p, 2, "digit")
  IN  IF WordBoundary(s, i) /\ a # -1
        THEN FirstEnd([k \in 1..2 |->
               IF 3 - k <= n2 THEN SlashYearEnd(s, p + (3 - k)) ELSE -1])
        ELSE -1

\* datePatterns[2]: /\b\d{4}\b/g
YearEnd(s, i) ==
  IF /\ WordBoundary(s, i)
     /\ RunLen(s, i, 4, "digit") = 4
     /\ WordBoundary(s, i + 4)
    THEN i + 4
    ELSE -1

\* datePatterns[3]: /\bDay\s+\d{1,2}\b/gi
DayEnd(s, i) ==
  LET p  == i + 3
      sp == RunLen(s, p, Len(s), "space")
      d  == p + sp
      nd == RunLen(s, d, 2, "digit")
  IN  IF WordBoundary(s, i) /\ LiteralAt(s, i, <<"d", "a", "y">>) /\ sp > 0
        THEN FirstEnd([k \in 1..2 |->
               IF 3 - k <= nd /\ WordBoundary(s, d + (3 - k))
                 THEN d + (3 - k)
                 ELSE -1])
        ELSE -1

\* datePatterns, in the order of the array
datePatterns == <<"month", "slash", "year", "day">>

\* the end of the match of pattern pat at offset i of s, or -1
PatternEnd(pat, s, i) ==
  CASE pat = "number" -> NumberEnd(s, i)
    [] pat = "word"   -> WordEnd(s, i)
    [] pat = "month"  -> MonthDateEnd(s, i)
    [] pat = "slash"  -> SlashDateEnd(s, i)
    [] pat = "year"   -> YearEnd(s, i)
    [] pat = "day"    -> DayEnd(s, i)

NoMatch == [index |-> -1, end |-> -1]

\* the least element of a set of offsets, or -1 when it is empty
LeastOffset(offsets) ==
  IF offsets = {} THEN -1 ELSE CHOOSE i \in offsets : \A j \in offsets : i <= j

\* the match of pat at offset i of s; NoMatch when i is -1
MatchAt(pat, s, i) ==
  IF i = -1 THEN NoMatch ELSE [index |-> i, end |-> PatternEnd(pat, s, i)]

\* the leftmost match of pat in s at or after offset pos (the matcher tries
\* each start offset in turn), or NoMatch
NextMatch(pat, s, pos) ==
  MatchAt(pat, s,
    LeastOffset({i \in pos..(Len(s) - 1) : PatternEnd(pat, s, i) # -1}))

\* what exec returns for the match m it found: the match, and the
\* lastIndex it leaves (the end of the match, 0 after a failure)
ExecResult(m) ==
  [match |-> m, lastIndex |-> IF m = NoMatch THEN 0 ELSE m.end]

\* re.exec(text) of a global pattern whose lastIndex is li
Exec(pat, s, li) ==
  ExecResult(IF li > Len(s) THEN NoMatch ELSE NextMatch(pat, s, li))

RECURSIVE AllMatches(_, _, _)
AllMatchesFrom(pat, s, m) ==
  IF m = NoMatch THEN <<>> ELSE <<m>> \o AllMatches(pat, s, m.end)

\* the matches a global scan of s finds from offset pos on, in order
AllMatches(pat, s, pos) == AllMatchesFrom(pat, s, NextMatch(pat, s, pos))

----------------------------------------------------------------------------
(* findDateRanges and indexInRanges *)

\* what a single exec leaves in place of the loop, r being what it returned
ExecOnceBody(acc, r) ==
  IF r.match = NoMatch
    THEN [ranges |-> acc, lastIndex |-> r.lastIndex]
    ELSE [ranges |-> Append(acc, [start |-> r.match.index, end |-> r.match.end]),
          lastIndex |-> r.lastIndex]

\* ExecLoop with "if" in place of "while": the first match only
ExecOnce(pat, s, li, acc) == ExecOnceBody(acc, Exec(pat, s, li))

RECURSIVE ExecLoop(_, _, _, _)
\* one turn of the loop, r being what exec returned
ExecLoopBody(pat, s, acc, r) ==
  IF r.match = NoMatch
    THEN [ranges |-> acc, lastIndex |-> r.lastIndex]
    ELSE ExecLoop(pat, s, r.lastIndex,
           Append(acc, [start |-> r.match.index, end |-> r.match.end]))

\* while ((match = re.exec(text)) !== null) ranges.push(...)
ExecLoop(pat, s, li, acc) == ExecLoopBody(pat, s, acc, Exec(pat, s, li))

RECURSIVE ForEachPattern(_, _, _, _)
\* the patterns after pattern k, r being what the loop of pattern k left
ForEachRest(k, s, lis, r) ==
  ForEachPattern(k + 1, s, [lis EXCEPT ![k] = r.lastIndex], r.ranges)

\* datePatterns.forEach(re => ...), from pattern k on
ForEachPattern(k, s, lis, acc) ==
  IF k > Len(datePatterns)
    THEN [ranges |-> acc, lastIndex |-> lis]
    ELSE ForEachRest(k, s, lis, ExecLoop(datePatterns[k], s, lis[k], acc))

\* findDateRanges(text), run with the patterns' lastIndex being lis: the
\* ranges returned and the lastIndex values left behind
findDateRanges(s, lis) == ForEachPattern(1, s, lis, <<>>)

indexInRanges(index, rs) ==
  \E k \in 1..Len(rs) : index >= rs[k].start /\ index < rs[k].end

----------------------------------------------------------------------------
(* transformString *)

Placeholder == <<Bullet, Bullet, Bullet>>

\* NumberReplacement returning the fixed placeholder in both modes
NumberReplacementFixedWidth(match, offset, rs, cfg) ==
  IF indexInRanges(offset, rs) THEN match ELSE Placeholder

DigitRow == <<"0", "1", "2", "3", "4", "5", "6", "7", "8", "9">>

\* the digit 9 - c for the digit c
MirrorDigit(c) ==
  DigitRow[Len(DigitRow) + 1 - (CHOOSE k \in 1..Len(DigitRow) : DigitRow[k] = c)]

\* NumberReplacement putting 9 - d in place of each digit d, and no
\* placeholder
NumberReplacementMirroring(match, offset, rs, cfg) ==
  IF indexInRanges(offset, rs)
    THEN match
    ELSE [k \in 1..Len(match) |->
            IF IsDigit(match[k]) THEN MirrorDigit(match[k]) ELSE match[k]]

\* NumberReplacement testing the offset of the last character of the match
\* in place of the offset of its first
NumberReplacementEndOffset(match, offset, rs, cfg) ==
  IF indexInRanges(offset + Len(match) - 1, rs)
    THEN match
    ELSE IF cfg.hideMagnitude
           THEN Placeholder
           ELSE [k \in 1..Len(match) |->
                   IF IsAlnum(match[k]) THEN Bullet ELSE match[k]]

\* the callback of the numeric pass
NumberReplacement(match, offset, rs, cfg) ==
  IF indexInRanges(offset, rs)
    THEN match
    ELSE IF cfg.hideMagnitude
           THEN Placeholder
           ELSE [k \in 1..Len(match) |->
                   IF IsAlnum(match[k]) THEN Bullet ELSE match[k]]

\* the callback of the word pass
WordReplacement(match, offset, rs, cfg) ==
  IF indexInRanges(offset, rs)
    THEN match
    ELSE IF cfg.hideMagnitude
           THEN Placeholder
           ELSE [k \in 1..Len(match) |-> Bullet]

Replacement(pat, match, offset, rs, cfg) ==
  IF pat = "number"
    THEN NumberReplacement(match, offset, rs, cfg)
    ELSE WordReplacement(match, offset, rs, cfg)

RECURSIVE ReplaceFrom(_, _, _, _, _)
\* the rest of the replaced string, m being the next match
ReplaceMatch(pat, s, pos, rs, cfg, m) ==
  IF m = NoMatch
    THEN Slice(s, pos, Len(s))
    ELSE Slice(s, pos, m.index)
           \o Replacement(pat, Slice(s, m.index, m.end), m.index, rs, cfg)
           \o ReplaceFrom(pat, s, m.end, rs, cfg)

\* s.replace(re, callback) for a global re, from offset pos of s on
ReplaceFrom(pat, s, pos, rs, cfg) ==
  ReplaceMatch(pat, s, pos, rs, cfg, NextMatch(pat, s, pos))

\* the numeric pass: result.replace(numberWithSuffixRegex, ...)
NumericPass(s, rs, cfg) == ReplaceFrom("number", s, 0, rs, cfg)

\* the word pass: result.replace(wordRegex, ...)
WordPass(s, rs, cfg) == ReplaceFrom("word", s, 0, rs, cfg)

\* the two passes of transformString, rs being the protected ranges
TwoPasses(s, cfg, rs) == WordPass(NumericPass(s, rs, cfg), rs, cfg)

\* transformString(text, config), the date patterns' lastIndex being lis
transformString(s, cfg, lis) == TwoPasses(s, cfg, findDateRanges(s, lis).ranges)

\* the offsets in s of the characters of the replacement of match m, whose
\* length is n: the offset of the corresponding character of the match,
\* the offset of its last character past its end
ReplacementOrigins(m, n) ==
  [k \in 1..n |-> IF m.index + k - 1 < m.end THEN m.index + k - 1 ELSE m.end - 1]

RECURSIVE OriginsFrom(_, _, _, _, _)
OriginsMatch(pat, s, pos, rs, cfg, m) ==
  IF m = NoMatch
    THEN [k \in 1..(Len(s) - pos) |-> pos + k - 1]
    ELSE [k \in 1..(m.index - pos) |-> pos + k - 1]
           \o ReplacementOrigins(m,
                Len(Replacement(pat, Slice(s, m.index, m.end), m.index, rs, cfg)))
           \o OriginsFrom(pat, s, m.end, rs, cfg)

\* for each character that ReplaceFrom returns, the offset in s it comes
\* from: its own offset for a character outside the matches
OriginsFrom(pat, s, pos, rs, cfg) ==
  OriginsMatch(pat, s, pos, rs, cfg, NextMatch(pat, s, pos))

----------------------------------------------------------------------------
(* The texts the engine is run on *)

\* texts of the README, of the source's comments and of the specification
DocMonthDate == <<"N","o","v"," ","2","2",","," ","2","0","2","5">>   \* "Nov 22, 2025"
DocSlashDate == <<"1","1","/","2","2","/","2","0","2","5">>   \* "11/22/2025"
DocIsoDate == <<"2","0","2","5","-","1","2","-","1","5">>   \* "2025-12-15"
DocDottedDate == <<"1","5",".","1","2",".","2","0","2","5">>   \* "15.12.2025"
DocTime == <<"1","0",":","3","0">>   \* "10:30"
DocTimeSeconds == <<"1","0",":","3","0",":","4","5">>   \* "10:30:45"
DocTimeAmPm == <<"1","0",":","3","0"," ","A","M">>   \* "10:30 AM"
DocDigits == <<"1","2","3",",","4","5","6",".","7","8">>   \* "123,456.78"
DocSuffixM == <<"1","0","M">>   \* "10M"
DocSuffixK == <<"5",".","5","K">>   \* "5.5K"
DocWordTwenty == <<"t","w","e","n","t","y">>   \* "twenty"
DocWordMillion == <<"m","i","l","l","i","o","n">>   \* "million"
SpecPrice == <<"P","r","i","c","e",":"," ","$","1","0",",","0","0","0",".","5","0">>   \* "Price: $10,000.50"
SpecRevenue == <<"R","e","v","e","n","u","e",":"," ","1","0","M">>   \* "Revenue: 10M"
SpecTwentyThree == <<"t","w","e","n","t","y"," ","t","h","r","e","e">>   \* "twenty three"
SpecRegression == <<"N","o","v"," ","2","2",","," ","2","0","2","5"," ","h","a","d"," ","t","w","e","n","t","y"," ","v","i","s","i","t","o","r","s">>   \* "Nov 22, 2025 had twenty visitors"
SrcHundredThis == <<"1","0","0"," ","t","h","i","s">>   \* "100 this"
SrcDay == <<"D","a","y"," ","1","3">>   \* "Day 13"
SrcShortSlash == <<"1","1","/","2","2">>   \* "11/22"
SrcSlashYear == <<"1","1","/","2","2","/","2","5">>   \* "11/22/25"
TextSomeone == <<"s","o","m","e","o","n","e">>   \* "someone"
TextNumberYearWord == <<"1","2","3","4","5"," ","2","0","2","5"," ","o","n","e">>   \* "12345 2025 one"
TextMonthLongDay == <<"N","o","v"," ","2","2","3">>   \* "Nov 223"
TextYearSuffix == <<"2","0","2","5"," ","k">>   \* "2025 k"

SampleTexts ==
  { DocMonthDate, DocSlashDate, DocIsoDate, DocDottedDate,
    DocTime, DocTimeSeconds, DocTimeAmPm, DocDigits,
    DocSuffixM, DocSuffixK, DocWordTwenty, DocWordMillion,
    SpecPrice, SpecRevenue, SpecTwentyThree, SpecRegression,
    SrcHundredThis, SrcDay, SrcShortSlash, SrcSlashYear,
    TextSomeone, TextNumberYearWord, TextMonthLongDay, TextYearSuffix }

\* the pieces the other texts are built of
Tokens ==
  { <<"1">>, <<"2","0","2","5">>, <<"1","2","3","4","5">>,
    <<" ">>, <<".">>, <<"/">>, <<"k">>, <<"n">>, <<"x">>,
    <<"o","n","e">>, <<"N","o","v">>, <<"D","a","y">>, <<Bullet>> }

MaxTokens == 3

RECURSIVE TokenTexts(_)
\* the concatenations of at most n tokens
TokenTexts(n) ==
  IF n = 0
    THEN {<<>>}
    ELSE LET shorter == TokenTexts(n - 1)
         IN  shorter \cup {t \o tok : t \in shorter, tok \in Tokens}

Texts == SampleTexts \cup TokenTexts(MaxTokens)

Configs == [enabled : BOOLEAN, hideMagnitude : BOOLEAN]

defaultConfig == [enabled |-> FALSE, hideMagnitude |-> FALSE]

----------------------------------------------------------------------------
(* The extension on one page: storage, popup, service worker, content      *)
(* script and injected script.  The page is the tab on host Hostname and   *)
(* has one text node; transformString is run with the date patterns'       *)
(* lastIndex at 0, where every call of findDateRanges leaves it.            *)

Domains == {"a.example", "b.example"}

\* window.location.hostname of the page
Hostname == "a.example"

\* the texts the page gives its text node and draws on its canvas
PageTexts == {DocSuffixM, TextNumberYearWord}

MaxPending == 2

MaxInbox == 1

MaxInits == 1

MaxObservers == 1

RestIndex == [k \in 1..Len(datePatterns) |-> 0]

\* a stored entry is <<>> (no entry for the domain) or <<configuration>>
StoredEntries == {<<>>} \cup {<<c>> : c \in Configs}

\* Object.assign({}, defaultConfig, siteConfigs[hostname] || {})
MergedConfig(sc, d) == IF sc[d] = <<>> THEN defaultConfig ELSE sc[d][1]

\* the stored configuration of the site has enabled false and the page has
\* handled every config-update sent to it
SettledDisabled ==
  /\ ~MergedConfig(siteConfigs, Hostname).enabled
  /\ inbox = 0
  /\ initPending = 0

\* the state of the site variables while the engine is studied alone
SiteIdle ==
  /\ siteConfigs = [d \in Domains |-> <<>>]
  /\ globalEnabled = TRUE
  /\ pendingSets = {}
  /\ inbox = 0
  /\ initPending = 0
  /\ pageText = <<>>
  /\ nodeValue = <<>>
  /\ observers = <<>>
  /\ records = <<>>
  /\ scripts = <<>>
  /\ canvasOverrides = <<>>
  /\ writtenDisabled = FALSE

\* the state of the engine variables while the site is studied
EngineIdle ==
  /\ text = <<>>
  /\ config = defaultConfig
  /\ pc = "done"
  /\ lastIndex = RestIndex
  /\ ranges = <<>>
  /\ intermediate = <<>>
  /\ origin = <<>>
  /\ result = <<>>
  /\ calls = 0

\* a page load: the content script has called initialize() (its last
\* line); the storage holds what earlier sessions left in it
SiteInit ==
  /\ EngineIdle
  /\ siteConfigs \in [Domains -> StoredEntries]
  /\ siteConfigs["b.example"] = <<>>
  /\ globalEnabled \in BOOLEAN
  /\ pendingSets = {}
  /\ inbox = 0
  /\ initPending = 1
  /\ pageText \in PageTexts
  /\ nodeValue = pageText
  /\ observers = <<>>
  /\ records = <<>>
  /\ scripts = <<>>
  /\ canvasOverrides = <<>>
  /\ writtenDisabled = FALSE

\* storage.set({siteConfigs}) or storage.set({globalEnabled}) as issued
SiteSet(d, sc) ==
  [key |-> "siteConfigs", domain |-> d, siteConfigs |-> sc, globalEnabled |-> TRUE]

GlobalSet(g) ==
  [key |-> "globalEnabled", domain |-> "", siteConfigs |-> [d \in Domains |-> <<>>],
   globalEnabled |-> g]

\* popup.js updateConfig, up to its storage.set: the popup of a tab on
\* domain d, its two checkboxes giving newConfig
updateConfig(d, newConfig) ==
  /\ Cardinality(pendingSets) < MaxPending
  /\ pendingSets' =
       pendingSets \cup {SiteSet(d, [siteConfigs EXCEPT ![d] = <<newConfig>>])}
  /\ UNCHANGED <<siteConfigs, globalEnabled, inbox, initPending, pageText,
                 nodeValue, observers, records, scripts, canvasOverrides>>
  /\ UNCHANGED writtenDisabled
  /\ UNCHANGED engineVars

\* the service worker's toggleSiteMasking(domain), up to its storage.set
toggleSiteMasking(d) ==
  /\ Cardinality(pendingSets) < MaxPending
  /\ LET currentConfig == MergedConfig(siteConfigs, d)
         toggled == [currentConfig EXCEPT !.enabled = ~currentConfig.enabled]
     IN  pendingSets' =
           pendingSets \cup {SiteSet(d, [siteConfigs EXCEPT ![d] = <<toggled>>])}
  /\ UNCHANGED <<siteConfigs, globalEnabled, inbox, initPending, pageText,
                 nodeValue, observers, records, scripts, canvasOverrides>>
  /\ UNCHANGED writtenDisabled
  /\ UNCHANGED engineVars

\* the service worker's toggleGlobalEnabled(), up to its storage.set
toggleGlobalEnabled ==
  /\ Cardinality(pendingSets) < MaxPending
  /\ pendingSets' = pendingSets \cup {GlobalSet(~globalEnabled)}
  /\ UNCHANGED <<siteConfigs, globalEnabled, inbox, initPending, pageText,
                 nodeValue, observers, records, scripts, canvasOverrides>>
  /\ UNCHANGED writtenDisabled
  /\ UNCHANGED engineVars

\* popup.js updateGlobalEnabled, up to its storage.set: the checkbox gives
\* newGlobalEnabled
updateGlobalEnabled(newGlobalEnabled) ==
  /\ Cardinality(pendingSets) < MaxPending
  /\ pendingSets' = pendingSets \cup {GlobalSet(newGlobalEnabled)}
  /\ UNCHANGED <<siteConfigs, globalEnabled, inbox, initPending, pageText,
                 nodeValue, observers, records, scripts, canvasOverrides>>
  /\ UNCHANGED writtenDisabled
  /\ UNCHANGED engineVars

\* a storage.set takes effect and its callback sends config-update: to the
\* tabs of the domain after a site update, to every tab after a global one
StorageSet(w) ==
  /\ w \in pendingSets
  /\ inbox < MaxInbox
  /\ IF w.key = "siteConfigs"
       THEN /\ siteConfigs' = w.siteConfigs
            /\ UNCHANGED globalEnabled
       ELSE /\ globalEnabled' = w.globalEnabled
            /\ UNCHANGED siteConfigs
  /\ inbox' = IF w.key = "globalEnabled" \/ w.domain = Hostname
                THEN inbox + 1
                ELSE inbox
  /\ pendingSets' = pendingSets \ {w}
  /\ UNCHANGED <<initPending, pageText, nodeValue, observers, records,
                 scripts, canvasOverrides>>
  /\ writtenDisabled' =
       (writtenDisabled /\ ~MergedConfig(siteConfigs', Hostname).enabled)
  /\ UNCHANGED engineVars

\* the content script's onMessage listener: config-update calls initialize()
onMessage ==
  /\ inbox > 0
  /\ initPending < MaxInits
  /\ inbox' = inbox - 1
  /\ initPending' = initPending + 1
  /\ UNCHANGED <<siteConfigs, globalEnabled, pendingSets, pageText,
                 nodeValue, observers, records, scripts, canvasOverrides>>
  /\ UNCHANGED writtenDisabled
  /\ UNCHANGED engineVars

\* the configurations a page processes text with
EnabledConfigs == {c \in Configs : c.enabled}

\* a set of texts and what transformString makes of them
WithTransformed(S) ==
  S \cup {transformString(t, c, RestIndex) : t \in S, c \in EnabledConfigs}

\* the texts the page writes where the observers' callbacks are studied
FeedbackTexts == SampleTexts \cup TokenTexts(MaxTokens - 1)

\* the page's texts and what up to three transformations make of them
NodeTexts ==
  WithTransformed(WithTransformed(WithTransformed(PageTexts \cup FeedbackTexts)))

\* transformString on NodeTexts, computed once: it is a function of the
\* text and the configuration alone
TransformTable ==
  [p \in NodeTexts \X EnabledConfigs |->
     transformString(p[1], p[2], RestIndex)]
    @@ [p \in {} |-> <<>>]

\* transformString(v, cfg) as the page's call sites call it
Transformed(v, cfg) ==
  IF cfg \in EnabledConfigs /\ v \in NodeTexts
    THEN TransformTable[<<v, cfg>>]
    ELSE transformString(v, cfg, RestIndex)

\* processTextNode(textNode, config) on a node whose value is v: the value
\* the node has afterwards
processTextNode(v, cfg) == Transformed(v, cfg)

\* the records after a step that leaves the node with value v: a write
\* to nodeValue queues a record for every observer installed
RecordsAfter(v, recs) ==
  IF v # nodeValue THEN [k \in 1..Len(recs) |-> TRUE] ELSE recs

\* what the callback of initialize() does for configuration cfg once past
\* its enabled test: process the text, observe, inject the canvas script
ProcessAndObserve(cfg) ==
  /\ Len(observers) < MaxObservers
  /\ nodeValue' = processTextNode(nodeValue, cfg)
  /\ observers' = Append(observers, cfg)
  /\ records' = Append(RecordsAfter(nodeValue', records), FALSE)
  /\ scripts' = Append(scripts, cfg)

\* the callback without its test "if (!config.enabled) return"
InitializeCallbackUngated(cfg) == ProcessAndObserve(cfg)

\* the callback of initialize() for the configuration cfg it computed
InitializeCallback(cfg) ==
  IF ~cfg.enabled
    THEN UNCHANGED <<nodeValue, observers, records, scripts>>
    ELSE ProcessAndObserve(cfg)

\* initialize(): storage.get calls back with the stored siteConfigs
initialize ==
  /\ initPending > 0
  /\ initPending' = initPending - 1
  /\ InitializeCallback(MergedConfig(siteConfigs, Hostname))
  /\ UNCHANGED <<siteConfigs, globalEnabled, pendingSets, inbox, pageText,
                 canvasOverrides>>
  /\ UNCHANGED writtenDisabled
  /\ UNCHANGED engineVars

\* the callback of observer k: processTextNode(mutation.target, config)
\* with the configuration the observer was created with
MutationCallback(k) ==
  /\ k \in 1..Len(observers)
  /\ records[k]
  /\ nodeValue' = processTextNode(nodeValue, observers[k])
  /\ records' = RecordsAfter(nodeValue', [records EXCEPT ![k] = FALSE])
  /\ UNCHANGED <<siteConfigs, globalEnabled, pendingSets, inbox, initPending,
                 pageText, observers, scripts, canvasOverrides>>
  /\ UNCHANGED writtenDisabled
  /\ UNCHANGED engineVars

\* the page's own script gives the text node a new text
PageSetsText(t) ==
  /\ t # nodeValue
  /\ pageText' = t
  /\ nodeValue' = t
  /\ records' = [k \in 1..Len(records) |-> TRUE]
  /\ UNCHANGED <<siteConfigs, globalEnabled, pendingSets, inbox, initPending,
                 observers, scripts, canvasOverrides>>
  /\ writtenDisabled' = SettledDisabled
  /\ UNCHANGED engineVars

\* document.currentScript.getAttribute('data-config') as injection.js reads
\* it: the script element is injected with type = 'module', and
\* document.currentScript is null while a module script runs, so the
\* defaults stay
InjectedConfig(attribute) == defaultConfig

\* injection.js runs: it returns at once unless its configuration is
\* enabled, and overrides fillText, strokeText and measureText otherwise
injection ==
  /\ scripts # <<>>
  /\ LET cfg == InjectedConfig(Head(scripts))
     IN  canvasOverrides' =
           IF cfg.enabled THEN Append(canvasOverrides, cfg) ELSE canvasOverrides
  /\ scripts' = Tail(scripts)
  /\ UNCHANGED <<siteConfigs, globalEnabled, pendingSets, inbox, initPending,
                 pageText, nodeValue, observers, records>>
  /\ UNCHANGED writtenDisabled
  /\ UNCHANGED engineVars

RECURSIVE ThroughOverrides(_, _)
\* the text that reaches the native method when t is given to the
\* outermost of the first n overrides: each transforms it and calls the
\* method it replaced
ThroughOverrides(t, n) ==
  IF n = 0
    THEN t
    ELSE ThroughOverrides(Transformed(t, canvasOverrides[n]), n - 1)

\* the string the native fillText, strokeText or measureText receives when
\* the page calls the method with the string t
CanvasText(t) == ThroughOverrides(t, Len(canvasOverrides))

SiteNext ==
  \/ \E c \in Configs : updateConfig(Hostname, c)
  \/ toggleSiteMasking(Hostname)
  \/ toggleGlobalEnabled
  \/ \E g \in BOOLEAN : updateGlobalEnabled(g)
  \/ \E w \in pendingSets : StorageSet(w)
  \/ onMessage
  \/ initialize
  \/ \E k \in 1..MaxObservers : MutationCallback(k)
  \/ \E t \in PageTexts : PageSetsText(t)
  \/ injection

SiteSpec == SiteInit /\ [][SiteNext]_vars

----------------------------------------------------------------------------
(* The stored map under updates from the popups and the service worker:   *)
(* tabs of other domains have popups and shortcuts of their own            *)

\* a fresh profile: nothing stored yet
StorageInit ==
  /\ SiteInit
  /\ siteConfigs = [d \in Domains |-> <<>>]
  /\ globalEnabled = TRUE
  /\ pageText = DocSuffixM

StorageNext ==
  \/ \E d \in Domains : \E c \in Configs : updateConfig(d, c)
  \/ \E d \in Domains : toggleSiteMasking(d)
  \/ \E w \in pendingSets : StorageSet(w)
  \/ onMessage
  \/ initialize

StorageSpec == StorageInit /\ [][StorageNext]_vars

----------------------------------------------------------------------------
(* The observers' callbacks after a write of the page, the page and the    *)
(* storage then left alone                                                 *)

\* the observers a page can have: one for each initialize that found the
\* site enabled
ObserverLists ==
  UNION {[1..n -> EnabledConfigs] : n \in 1..MaxObservers}

\* the page, initialized with the site enabled, has just written its text
\* node: a characterData record awaits every observer
FeedbackInit ==
  /\ EngineIdle
  /\ observers \in ObserverLists
  /\ siteConfigs =
       [d \in Domains |->
          IF d = Hostname THEN <<observers[Len(observers)]>> ELSE <<>>]
  /\ globalEnabled = TRUE
  /\ pendingSets = {}
  /\ inbox = 0
  /\ initPending = 0
  /\ pageText \in FeedbackTexts
  /\ nodeValue = pageText
  /\ records = [k \in 1..Len(observers) |-> TRUE]
  /\ scripts = <<>>
  /\ canvasOverrides = <<>>
  /\ writtenDisabled = FALSE

FeedbackNext == \E k \in 1..MaxObservers : MutationCallback(k)

\* the browser delivers every queued record to its observer's callback
FeedbackSpec ==
  FeedbackInit /\ [][FeedbackNext]_vars /\ WF_vars(FeedbackNext)

----------------------------------------------------------------------------
(* The masking engine, one call at a time *)

Init ==
  /\ text \in Texts
  /\ config \in Configs
  /\ pc = "start"
  /\ lastIndex = [k \in 1..Len(datePatterns) |-> 0]
  /\ ranges = <<>>
  /\ intermediate = <<>>
  /\ origin = <<>>
  /\ result = <<>>
  /\ calls = 0
  /\ SiteIdle

\* the call sites' gate: with enabled false, initialize returns before any
\* text is processed and injection.js before it overrides anything
Passthrough ==
  /\ pc = "start"
  /\ ~config.enabled
  /\ result' = text
  /\ pc' = "done"
  /\ UNCHANGED <<text, config, lastIndex, ranges, intermediate, origin, calls>>
  /\ UNCHANGED siteVars

\* r is what findDateRanges returned and left behind
FoundRanges(r) ==
  /\ ranges' = r.ranges
  /\ lastIndex' = r.lastIndex

\* const ranges = findDateRanges(text)
FindDateRanges ==
  /\ pc = "start"
  /\ config.enabled
  /\ FoundRanges(findDateRanges(text, lastIndex))
  /\ pc' = "numeric"
  /\ calls' = calls + 1
  /\ UNCHANGED <<text, config, intermediate, origin, result>>
  /\ UNCHANGED siteVars

\* result = result.replace(numberWithSuffixRegex, ...)
ReplaceNumbers ==
  /\ pc = "numeric"
  /\ intermediate' = NumericPass(text, ranges, config)
  /\ origin' = OriginsFrom("number", text, 0, ranges, config)
  /\ pc' = "word"
  /\ UNCHANGED <<text, config, lastIndex, ranges, result, calls>>
  /\ UNCHANGED siteVars

\* result = result.replace(wordRegex, ...); return result
ReplaceWords ==
  /\ pc = "word"
  /\ result' = WordPass(intermediate, ranges, config)
  /\ pc' = "done"
  /\ UNCHANGED <<text, config, lastIndex, ranges, intermediate, origin, calls>>
  /\ UNCHANGED siteVars

Next ==
  \/ Passthrough
  \/ FindDateRanges
  \/ ReplaceNumbers
  \/ ReplaceWords

Spec == Init /\ [][Next]_vars

----------------------------------------------------------------------------
(* The date detector called again and again: every transformString calls  *)
(* findDateRanges once, on the same four pattern objects                   *)

MaxCalls == 2

\* the texts of the later calls
LaterTexts == SampleTexts \cup TokenTexts(1)

DetectorInit ==
  /\ Init
  /\ config = [enabled |-> TRUE, hideMagnitude |-> FALSE]

\* the next transformString(t, config): what is left of the present call
\* does not use the date patterns; findDateRanges starts with ranges = []
NextCall(t) ==
  /\ pc = "numeric"
  /\ calls < MaxCalls
  /\ text' = t
  /\ ranges' = <<>>
  /\ pc' = "start"
  /\ UNCHANGED <<config, lastIndex, intermediate, origin, result, calls>>
  /\ UNCHANGED siteVars

DetectorNext ==
  \/ FindDateRanges
  \/ \E t \in LaterTexts : NextCall(t)

DetectorSpec == DetectorInit /\ [][DetectorNext]_vars

----------------------------------------------------------------------------
(* Properties of the masking engine *)

Returned == pc = "done"

Masking == Returned /\ config.enabled

CharPreserving == Masking /\ ~config.hideMagnitude

HideMagnitude == Masking /\ config.hideMagnitude

\* the offsets of text
Offsets == 0..(Len(text) - 1)

\* the matches of the two passes' patterns in the original text
NumberMatches == AllMatches("number", text, 0)

WordMatches == AllMatches("word", text, 0)

\* a numeric match that ends in a magnitude suffix
HasSuffix(m) ==
  m.end > DigitGroups(text, m.index + RunLen(text, m.index, Len(text), "digit"))

\* characters i..j-1 of the result are placeholders, but for ".", "," and
\* whitespace, which are the text's
MaskedInPlace(i, j) ==
  \A o \in i..(j - 1) :
    At(result, o) = IF At(text, o) \in {".", ","} \/ IsSpace(At(text, o))
                      THEN At(text, o)
                      ELSE Bullet

\* C1: in character-preserving mode the output has the length of the input
\* and every character that is not a placeholder is the input's character
\* at the same offset.
LengthInvariant ==
  CharPreserving =>
    /\ Len(result) = Len(text)
    /\ \A o \in Offsets : At(result, o) # Bullet => At(result, o) = At(text, o)

\* C1 witness: a call in character-preserving mode that masked a digit and
\* a letter and kept another character.
LengthInvariantWitness ==
  /\ CharPreserving
  /\ \E o \in Offsets : IsDigit(At(text, o)) /\ At(result, o) = Bullet
  /\ \E o \in Offsets : At(text, o) \in LowerSet /\ At(result, o) = Bullet
  /\ \E o \in Offsets : At(text, o) # Bullet /\ At(result, o) = At(text, o)

\* C2: every character of the input inside a protected range is unchanged
\* in the output (character-preserving mode), also where a numeric
\* expression begins before the range and extends into it.
ProtectedRangesUnaltered ==
  CharPreserving =>
    \A k \in 1..Len(ranges) :
      \A o \in ranges[k].start..(ranges[k].end - 1) :
        At(result, o) = At(text, o)

\* C3: a number word seen by the word pass is left unmasked if and only if
\* its start offset in the ORIGINAL text lies inside a protected range, in
\* both modes.
WordGatedByOriginalOffset ==
  Masking =>
    \A o \in 0..(Len(intermediate) - 1) :
      WordEnd(intermediate, o) # -1 =>
        (indexInRanges(o, ranges) <=> indexInRanges(origin[o + 1], ranges))

RECURSIVE NumbersFixedWidthFrom(_)
\* the text from offset pos on, each numeric match whose start offset is
\* not in a protected range replaced by the three-character placeholder
NumbersFixedWidthFrom(pos) ==
  LET m == NextMatch("number", text, pos)
  IN  IF m = NoMatch
        THEN Slice(text, pos, Len(text))
        ELSE Slice(text, pos, m.index)
               \o (IF indexInRanges(m.index, ranges)
                     THEN Slice(text, m.index, m.end)
                     ELSE Placeholder)
               \o NumbersFixedWidthFrom(m.end)

RECURSIVE WordsFixedWidthFrom(_)
\* the string after the numeric pass from offset pos on, each number word
\* whose start offset IN THE ORIGINAL TEXT is not in a protected range
\* replaced by the three-character placeholder
WordsFixedWidthFrom(pos) ==
  LET m == NextMatch("word", intermediate, pos)
  IN  IF m = NoMatch
        THEN Slice(intermediate, pos, Len(intermediate))
        ELSE Slice(intermediate, pos, m.index)
               \o (IF indexInRanges(origin[m.index + 1], ranges)
                     THEN Slice(intermediate, m.index, m.end)
                     ELSE Placeholder)
               \o WordsFixedWidthFrom(m.end)

\* C4: with hideMagnitude, every numeric match and every number-word match
\* whose start offset is not inside a protected range is replaced by exactly
\* the three-character placeholder, and nothing else is changed.
FixedWidthInvariant ==
  HideMagnitude =>
    /\ intermediate = NumbersFixedWidthFrom(0)
    /\ result = WordsFixedWidthFrom(0)

RECURSIVE MaskOriginalFrom(_, _, _)
\* the text from offset pos on with every numeric match of the text
\* replaced as the numeric pass replaces it and every whole-word number word
\* of the text replaced as a whole
MaskOriginalFrom(pos, rs, cfg) ==
  LET n == NextMatch("number", text, pos)
      w == NextMatch("word", text, pos)
      m == IF w = NoMatch \/ (n # NoMatch /\ n.index <= w.index) THEN n ELSE w
      match == Slice(text, m.index, m.end)
      rep == IF m = n
               THEN NumberReplacement(match, m.index, rs, cfg)
               ELSE WordReplacement(match, m.index, <<>>, cfg)
  IN  IF m = NoMatch
        THEN Slice(text, pos, Len(text))
        ELSE Slice(text, pos, m.index) \o rep \o MaskOriginalFrom(m.end, rs, cfg)

\* the documented date and time forms (README, "What Gets Preserved")
DocumentedDateTimes ==
  { DocMonthDate, DocSlashDate, DocIsoDate, DocDottedDate,
    DocTime, DocTimeSeconds, DocTimeAmPm }

\* C7: with masking enabled, each documented date and time form is returned
\* unchanged.
DocumentedDatesPreserved ==
  Masking /\ text \in DocumentedDateTimes => result = text

OccursAt(k, o) == LiteralAt(text, o, numberWords[k])

\* the occurrence lies inside a whole-word number word of the text
InsideWholeWord(k, o) ==
  \E j \in 1..Len(WordMatches) :
    WordMatches[j].index <= o /\ o + Len(numberWords[k]) <= WordMatches[j].end

\* C9: every whole-word occurrence of a number word is masked (one
\* placeholder per character in character-preserving mode, the fixed
\* placeholder with hideMagnitude), and a number word that is only part of a
\* longer word is not masked.
WordMasking ==
  /\ CharPreserving =>
       /\ \A j \in 1..Len(WordMatches) :
            \A o \in WordMatches[j].index..(WordMatches[j].end - 1) :
              At(result, o) = Bullet
       /\ \A k \in 1..Len(numberWords) : \A o \in Offsets :
            OccursAt(k, o) /\ ~InsideWholeWord(k, o) =>
              Slice(result, o, o + Len(numberWords[k]))
                = Slice(text, o, o + Len(numberWords[k]))
  /\ HideMagnitude => result = MaskOriginalFrom(0, ranges, config)

\* number word k occurs at offset o of the text between two word boundaries
WholeWordAt(k, o) ==
  /\ OccursAt(k, o)
  /\ WordBoundary(text, o)
  /\ WordBoundary(text, o + Len(numberWords[k]))

\* the text holds no digit and no whole-word number word
NonNumeric ==
  /\ \A o \in Offsets : ~IsDigit(At(text, o))
  /\ \A k \in 1..Len(numberWords) : \A o \in Offsets : ~WholeWordAt(k, o)

\* C10: a text with no digit and no whole-word number word is returned
\* unchanged under every configuration.
NonNumericFixedPoint ==
  Returned /\ NonNumeric => result = text

\* C10 witness: an enabled call returned a text unchanged that holds a
\* number word inside a longer word.
NonNumericWitness ==
  /\ Masking
  /\ NonNumeric
  /\ \E k \in 1..Len(numberWords) : \E o \in Offsets : OccursAt(k, o)
  /\ result = text

----------------------------------------------------------------------------
(* Properties of the extension on a page *)

\* the step is a callback of initialize()
InitializeStep == initPending' < initPending

\* the step is a run of the injected script
InjectionStep == Len(scripts') < Len(scripts)

\* the step changes no text node value, observes nothing, injects no script
\* and overrides no canvas method
NothingMasked ==
  /\ nodeValue' = nodeValue
  /\ observers' = observers
  /\ records' = records
  /\ scripts' = scripts
  /\ canvasOverrides' = canvasOverrides
  /\ \A t \in PageTexts : CanvasText(t)' = t

\* C5: with enabled false in the site's configuration, or no configuration
\* stored for the site, initialize changes no text node value and installs
\* no canvas override, and the injected script overrides nothing when its
\* configuration has enabled false.
DisabledPassthrough ==
  [][ /\ (InitializeStep /\ ~MergedConfig(siteConfigs, Hostname).enabled)
          => NothingMasked
      /\ (InjectionStep /\ ~InjectedConfig(Head(scripts)).enabled)
          => canvasOverrides' = canvasOverrides ]_vars

\* C5 witness: every initialize of the page found a stored configuration
\* with enabled false, and the text, which holds a number, is as the page
\* wrote it.
DisabledPassthroughWitness ==
  /\ initPending = 0
  /\ inbox = 0
  /\ pendingSets = {}
  /\ siteConfigs[Hostname] # <<>>
  /\ ~MergedConfig(siteConfigs, Hostname).enabled
  /\ observers = <<>>
  /\ canvasOverrides = <<>>
  /\ nodeValue = DocSuffixM

\* C6: an initialize that runs while the stored globalEnabled is false
\* changes no text node and injects no canvas override, whatever the site's
\* own configuration.
GlobalSwitchOff ==
  [][(InitializeStep /\ ~globalEnabled) => NothingMasked]_vars

----------------------------------------------------------------------------
(* Repeated application *)

\* transformString applied to the result of the call, the date patterns as
\* the call left them
Remasked == transformString(result, config, lastIndex)

\* C11: applying the masking function to its own output changes nothing
\* further, for every text and every enabled configuration.
RemaskingIdempotent ==
  Masking => Remasked = result

\* re-masking in character-preserving mode, where no offset shifts
RemaskingIdempotentCharPreserving ==
  CharPreserving => Remasked = result

----------------------------------------------------------------------------
(* The start-offset rule of the numeric pass *)

\* the numeric pass has run
NumbersReplaced == config.enabled /\ pc \in {"word", "done"}

\* offset o lies in some protected range: start <= o < end
InSomeRange(o) ==
  \E k \in 1..Len(ranges) : ranges[k].start <= o /\ o < ranges[k].end

\* the match m masked in full: the placeholder with hideMagnitude, and
\* otherwise a placeholder for each digit and letter, ".", "," and
\* whitespace kept
FullyMasked(m) ==
  IF config.hideMagnitude
    THEN <<Bullet, Bullet, Bullet>>
    ELSE [k \in 1..(m.end - m.index) |->
            IF \/ At(text, m.index + k - 1) \in {".", ","}
               \/ IsSpace(At(text, m.index + k - 1))
              THEN At(text, m.index + k - 1)
              ELSE Bullet]

RECURSIVE StartRuleFrom(_)
\* the text from offset pos on, each numeric match left as it is when its
\* start offset lies in a protected range and masked in full when not
StartRuleFrom(pos) ==
  LET m == NextMatch("number", text, pos)
  IN  IF m = NoMatch
        THEN Slice(text, pos, Len(text))
        ELSE Slice(text, pos, m.index)
               \o (IF InSomeRange(m.index)
                     THEN Slice(text, m.index, m.end)
                     ELSE FullyMasked(m))
               \o StartRuleFrom(m.end)

\* C12: the numeric pass leaves a match whose start offset lies in a
\* protected range completely unchanged, also where it extends past the end
\* of the range, masks in full a match whose start offset lies in no range,
\* and changes nothing else: no match is split.
StartOffsetRule ==
  NumbersReplaced => intermediate = StartRuleFrom(0)

\* C12 witness: the numeric pass left unchanged a match that starts inside a
\* protected range and ends after every range.
StartOffsetRuleWitness ==
  /\ NumbersReplaced
  /\ ~config.hideMagnitude
  /\ \E k \in 1..Len(NumberMatches) :
       LET m == NumberMatches[k]
       IN  /\ InSomeRange(m.index)
           /\ \A j \in 1..Len(ranges) : ranges[j].end < m.end
           /\ Slice(intermediate, m.index, m.end) = Slice(text, m.index, m.end)

----------------------------------------------------------------------------
(* Repeated calls of the date detector *)

\* C13: every call of findDateRanges starts with the four patterns at
\* position 0 and leaves them there, so a call on a text, after any earlier
\* calls, returns the ranges a first call on that text returns.
DetectorRepeatSafe ==
  /\ pc = "start" => lastIndex = RestIndex
  /\ pc = "numeric" =>
       /\ lastIndex = RestIndex
       /\ ranges = findDateRanges(text, RestIndex).ranges

\* C13 witness: a later call returned two ranges after an earlier call had
\* returned.
DetectorRepeatSafeWitness ==
  /\ pc = "numeric"
  /\ calls >= 2
  /\ Len(ranges) >= 2

----------------------------------------------------------------------------
(* Disabling on a live page *)

\* C14: once the site's stored configuration has enabled false and the
\* page has handled the config-update, a text the page writes afterwards is
\* not masked, and a canvas text call is not transformed.
DisablingTakesEffect ==
  [][(SettledDisabled /\ writtenDisabled) =>
        /\ nodeValue' = nodeValue \/ nodeValue' = pageText'
        /\ \A t \in PageTexts : CanvasText(t) = t]_vars

----------------------------------------------------------------------------
(* Updates of the stored map *)

\* the storage.set calls that take effect in the step
AppliedSets == pendingSets \ pendingSets'

\* C15: an update of one domain's configuration never changes the stored
\* entry of another domain, so of two updates that concern different
\* domains neither is lost, in whatever order their reads and writes
\* interleave.
NoLostUpdate ==
  [][\A w \in AppliedSets :
       w.key = "siteConfigs" =>
         \A d \in Domains \ {w.domain} : siteConfigs'[d] = siteConfigs[d]]_vars

----------------------------------------------------------------------------
(* The feedback of the observers' own writes *)

\* no record awaits an observer, and every observer's masking maps the
\* node's text to itself
FeedbackQuiet ==
  /\ \A k \in 1..Len(records) : ~records[k]
  /\ \A k \in 1..Len(observers) : Transformed(nodeValue, observers[k]) = nodeValue

\* C16: after a write of the page the rewriting by the observers' callbacks
\* reaches, after finitely many rewrites, a text that the masking maps to
\* itself, and the node is then never written again.
FeedbackTerminates == <>[]FeedbackQuiet

\* C16 witness: the callbacks have come to rest after two rewrites of the
\* text the page wrote.
FeedbackTerminatesWitness ==
  /\ FeedbackQuiet
  /\ observers # <<>>
  /\ nodeValue # pageText
  /\ nodeValue # Transformed(pageText, observers[1])
  /\ nodeValue = Transformed(Transformed(pageText, observers[1]), observers[1])

====
